---- MODULE Spec2Model ----
(***************************************************************************)
(* Model of notebooks/Setup.ipynb: the CORD-19 document pipeline.          *)
(* A notebook is a list of cells run top to bottom over one kernel; the    *)
(* state is the kernel's globals, the storage mount, the remote files and  *)
(* the local disk.  Corpus passes are modelled one document per step.      *)
(***************************************************************************)
EXTENDS Integers, Sequences, FiniteSets, TLC

(***************************************************************************)
(* Bounds of the model (the notebook's N_DOCUMENTS is 500; the model runs  *)
(* the same code over a table of NumArticles rows).                        *)
(***************************************************************************)
NumArticles == 2
MaxTrainPasses == 2
MaxWords == 2

(***************************************************************************)
(* Program constants.                                                      *)
(***************************************************************************)
DOCUMENT_INDEX == 0
ElbowFirst == 3
ElbowStop == 20
ClusterCap == 12
TrainTenths == 8
Sep == 0

None == "None"
FileNotFoundError == "FileNotFoundError"
KeyError == "KeyError"
IndexError == "IndexError"
TypeError == "TypeError"
ValueError == "ValueError"

(***************************************************************************)
(* Text.  A word is a sequence of characters; a paragraph's text is the    *)
(* sequence of its raw words, "." ending a sentence.                       *)
(***************************************************************************)
LowerSeq == << "a","b","c","d","e","f","g","h","i","j","k","l","m",
               "n","o","p","q","r","s","t","u","v","w","x","y","z" >>
UpperSeq == << "A","B","C","D","E","F","G","H","I","J","K","L","M",
               "N","O","P","Q","R","S","T","U","V","W","X","Y","Z" >>
Range(s) == { s[i] : i \in DOMAIN s }
Letters == Range(LowerSeq) \cup Range(UpperSeq)
Vowels == { "a", "e", "i", "o", "u", "y" }

\* string.punctuation (the grave accent, which the TLA+ lexer does not take
\* inside a string, is left out; no word of the model holds it).
punctuation == << "!", "\"", "#", "$", "%", "&", "'", "(", ")", "*", "+", ",",
                  "-", ".", "/", ":", ";", "<", "=", ">", "?", "@", "[", "\\",
                  "]", "^", "_", "{", "|", "}", "~" >>

\* nltk.corpus.stopwords.words('english'), the entries that the words of the
\* model's vocabulary and their stems can meet.
EnglishStopwords == { <<"t","h","e">>, <<"o","f">>, <<"a","n","d">>, <<"a">>,
                      <<"i","s">>, <<"o","w","n">>, <<"s">>, <<"t">> }

stop_tokens ==
  EnglishStopwords \cup { <<c>> : c \in Range(punctuation) }
                   \cup { <<"e","t">>, <<"a","l",".">> }

\* str.isalpha
IsAlpha(word) == Len(word) > 0 /\ \A i \in DOMAIN word : word[i] \in Letters

LowerChar(c) ==
  IF c \in Range(UpperSeq)
    THEN LowerSeq[CHOOSE i \in DOMAIN UpperSeq : UpperSeq[i] = c]
    ELSE c

\* str.lower
Lower(word) == [ i \in DOMAIN word |-> LowerChar(word[i]) ]

EndsWith(word, suffix) ==
  /\ Len(word) >= Len(suffix)
  /\ SubSeq(word, Len(word) - Len(suffix) + 1, Len(word)) = suffix

DropLast(word, n) == SubSeq(word, 1, Len(word) - n)

HasVowel(word) == \E i \in DOMAIN word : word[i] \in Vowels

\* Snowball (English) step 1a: the plural suffixes.
Step1a(word) ==
  IF EndsWith(word, <<"s","s","e","s">>) THEN DropLast(word, 2)
  ELSE IF EndsWith(word, <<"i","e","d">>) \/ EndsWith(word, <<"i","e","s">>)
    THEN IF Len(word) > 4 THEN DropLast(word, 2) ELSE DropLast(word, 1)
  ELSE IF EndsWith(word, <<"u","s">>) \/ EndsWith(word, <<"s","s">>) THEN word
  ELSE IF EndsWith(word, <<"s">>) /\ HasVowel(DropLast(word, 2))
    THEN DropLast(word, 1)
  ELSE word

\* Snowball (English) step 1b: "ed" and "ing" after a vowel.
Step1b(word) ==
  IF EndsWith(word, <<"e","d">>) /\ HasVowel(DropLast(word, 2))
    THEN DropLast(word, 2)
  ELSE IF EndsWith(word, <<"i","n","g">>) /\ HasVowel(DropLast(word, 3))
    THEN DropLast(word, 3)
  ELSE word

\* SnowballStemmer('english').stem: lower-cases, leaves words of at most two
\* letters, then strips suffixes.  Steps 1a and 1b are modelled; the later
\* steps leave the stems of the vocabulary below unchanged.
Stem(word) ==
  LET w == Lower(word)
  IN  IF Len(w) <= 2 THEN w ELSE Step1b(Step1a(w))

W_The == <<"T","h","e">>
W_owned == <<"o","w","n","e","d">>
W_spreads == <<"s","p","r","e","a","d","s">>
W_virus == <<"v","i","r","u","s">>
W_Et == <<"E","t">>
W_al == <<"a","l",".">>
W_h1n1 == <<"h","1","n","1">>
W_dot == <<".">>
W_comma == <<",">>

(***************************************************************************)
(* The metadata table and the remote files.  A file name is a number, the  *)
(* 'pdf_json_files' cell is the names of the article's files joined by     *)
(* Sep (the '; ' of the source); NaN is the cell of an article without     *)
(* files.  Article i of the filtered table has one file when i is even and *)
(* two when i is odd.                                                      *)
(***************************************************************************)
NaN == << >>
ArticleIndexes == 0 .. (NumArticles - 1)
ArticleFiles(i) ==
  IF i % 2 = 1 THEN << 2 * i + 1, 2 * i + 2 >> ELSE << 2 * i + 1 >>
FileNames == UNION { Range(ArticleFiles(i)) : i \in ArticleIndexes }

RECURSIVE Join(_)
Join(names) ==
  IF Len(names) <= 1 THEN names
  ELSE << Head(names), Sep >> \o Join(Tail(names))

\* str.split('; ')
RECURSIVE Split(_, _)
Split(cell, current) ==
  IF cell = << >> THEN << current >>
  ELSE IF Head(cell) = Sep THEN << current >> \o Split(Tail(cell), << >>)
  ELSE Split(Tail(cell), Append(current, Head(cell)))

\* The tables of the model: the ids of the articles are all different, or
\* neighbouring articles share one (cord_uid is not a key of metadata.csv).
UidTables == { [ i \in ArticleIndexes |-> i ], [ i \in ArticleIndexes |-> i \div 2 ] }

\* metadata.csv: an article without files, then the articles with files.
MetadataCsv(uids) ==
  << [ cord_uid |-> NumArticles, pdf_json_files |-> NaN ] >>
  \o [ r \in 1 .. NumArticles |->
         [ cord_uid |-> uids[r - 1], pdf_json_files |-> Join(ArticleFiles(r - 1)) ] ]

\* The texts of the corpus.
CorpusText(name) ==
  CASE name % 3 = 1 -> << [ text |-> << W_The, W_virus, W_spreads, W_dot >> ] >>
    [] name % 3 = 0 -> << [ text |-> << W_owned, W_comma, W_virus >> ] >>
    [] OTHER -> << [ text |-> << W_Et, W_al, W_dot >> ],
                   [ text |-> << W_h1n1, W_spreads >> ] >>

\* A full-text JSON file, and one without the body_text field.
GoodFile(name) == [ paper_id |-> name, body_text |-> CorpusText(name) ]
NoBodyFile(name) == [ paper_id |-> name ]

(***************************************************************************)
(* Reader                                                                  *)
(***************************************************************************)
\* mount.start()
MountStart(m) == TRUE
\* mount.stop()
MountStop(m) == FALSE

\* '{0}/{1}'.format(covid_dirpath, filename) and os.path.join(covid_dirpath, cell):
\* the path below the mount point is the cell or name it was built from.
PathOf(cell) == cell

NoData == [ nothing |-> TRUE ]

\* open(filepath, 'r') and json.load: the file is there when the mount is
\* started and the path names a file of the remote storage.
Open(filepath, m, files) ==
  IF m /\ Len(filepath) = 1 /\ filepath[1] \in DOMAIN files
    THEN [ outcome |-> "ok", data |-> files[filepath[1]] ]
    ELSE [ outcome |-> FileNotFoundError, data |-> NoData ]

ReadFileToJsonRetriesAgain(filepath, m, files) ==
  LET first == Open(filepath, m, files)
      second == Open(filepath, MountStart(m), files)
      third == Open(filepath, MountStart(MountStart(m)), files)
  IN  IF first.outcome = "ok"
        THEN [ path |-> filepath, before |-> m, opens |-> << first.outcome >>,
               starts |-> 0, raised |-> None, data |-> first.data, mount |-> m ]
      ELSE IF second.outcome = "ok"
        THEN [ path |-> filepath, before |-> m,
               opens |-> << first.outcome, second.outcome >>, starts |-> 1,
               raised |-> None, data |-> second.data, mount |-> MountStart(m) ]
      ELSE [ path |-> filepath, before |-> m,
             opens |-> << first.outcome, second.outcome, third.outcome >>,
             starts |-> 2,
             raised |-> IF third.outcome = "ok" THEN None ELSE third.outcome,
             data |-> third.data, mount |-> MountStart(MountStart(m)) ]

ReadFileToJsonNoRemount(filepath, m, files) ==
  LET first == Open(filepath, m, files)
  IN  [ path |-> filepath, before |-> m, opens |-> << first.outcome >>,
        starts |-> 0,
        raised |-> IF first.outcome = "ok" THEN None ELSE first.outcome,
        data |-> first.data, mount |-> m ]

\* Reader.read_file_to_json: the record of one call (what it opened, how often
\* it started the mount, what it raised or returned, the mount afterwards).
ReadFileToJson(filepath, m, files) ==
  LET first == Open(filepath, m, files)
  IN  IF first.outcome # FileNotFoundError
        THEN [ path |-> filepath, before |-> m, opens |-> << first.outcome >>,
               starts |-> 0, raised |-> None, data |-> first.data, mount |-> m ]
        ELSE LET m2 == MountStart(m)
                 second == Open(filepath, m2, files)
             IN  [ path |-> filepath, before |-> m,
                   opens |-> << first.outcome, second.outcome >>, starts |-> 1,
                   raised |-> IF second.outcome = "ok" THEN None ELSE second.outcome,
                   data |-> second.data, mount |-> m2 ]

\* The preview cell: the same try / except around the unsplit cell of the
\* article at DOCUMENT_INDEX.
PreviewRead(filepath, m, files) ==
  LET first == Open(filepath, m, files)
  IN  IF first.outcome # FileNotFoundError
        THEN [ path |-> filepath, before |-> m, opens |-> << first.outcome >>,
               starts |-> 0, raised |-> None, data |-> first.data, mount |-> m ]
        ELSE LET m2 == MountStart(m)
                 second == Open(filepath, m2, files)
             IN  [ path |-> filepath, before |-> m,
                   opens |-> << first.outcome, second.outcome >>, starts |-> 1,
                   raised |-> IF second.outcome = "ok" THEN None ELSE second.outcome,
                   data |-> second.data, mount |-> m2 ]

\* sent_tokenize: the sentences of a paragraph, each ending with its ".".
RECURSIVE SentTokenize(_, _)
SentTokenize(text, current) ==
  IF text = << >> THEN IF current = << >> THEN << >> ELSE << current >>
  ELSE IF Head(text) = W_dot
    THEN << Append(current, Head(text)) >> \o SentTokenize(Tail(text), << >>)
  ELSE SentTokenize(Tail(text), Append(current, Head(text)))

KeepWord(word) == IsAlpha(word) /\ Lower(word) \notin stop_tokens

SentenceWordsFiltersStems(p_sentence) ==
  LET stems == [ i \in DOMAIN p_sentence |-> Stem(p_sentence[i]) ]
      kept(word) == IsAlpha(word) /\ word \notin stop_tokens
  IN  SelectSeq(stems, kept)

\* [ stem(word) for word in word_tokenize(p_sentence) if word.isalpha() and
\*   word.lower() not in stop_tokens ]
SentenceWords(p_sentence) ==
  LET kept == SelectSeq(p_sentence, KeepWord)
  IN  [ i \in DOMAIN kept |-> Stem(kept[i]) ]

\* for p_sentence in p_sentences: words.extend(sentence)
RECURSIVE ParagraphWords(_, _)
ParagraphWords(p_sentences, words) ==
  IF p_sentences = << >> THEN words
  ELSE ParagraphWords(Tail(p_sentences), words \o SentenceWords(Head(p_sentences)))

\* for paragraph in text: ...
RECURSIVE BodyWords(_, _)
BodyWords(text, words) ==
  IF text = << >> THEN words
  ELSE BodyWords(Tail(text),
                 ParagraphWords(SentTokenize(Head(text).text, << >>), words))

RECURSIVE ParseFilesSkipsFilesWithoutBody(_, _, _, _, _)
ParseFilesSkipsFilesWithoutBody(filenames, m, files, words, calls) ==
  IF filenames = << >>
    THEN [ error |-> None, words |-> words, mount |-> m, calls |-> calls ]
  ELSE LET call == ReadFileToJson(PathOf(Head(filenames)), m, files)
       IN  IF call.raised # None
             THEN [ error |-> call.raised, words |-> << >>, mount |-> call.mount,
                    calls |-> Append(calls, call) ]
           ELSE IF "body_text" \notin DOMAIN call.data
             THEN ParseFilesSkipsFilesWithoutBody(Tail(filenames), call.mount, files,
                                                  words, Append(calls, call))
           ELSE ParseFilesSkipsFilesWithoutBody(Tail(filenames), call.mount, files,
                                                BodyWords(call.data.body_text, words),
                                                Append(calls, call))

\* for filename in document['pdf_json_files'].split('; '): ...
RECURSIVE ParseFiles(_, _, _, _, _)
ParseFiles(filenames, m, files, words, calls) ==
  IF filenames = << >>
    THEN [ error |-> None, words |-> words, mount |-> m, calls |-> calls ]
  ELSE LET call == ReadFileToJson(PathOf(Head(filenames)), m, files)
       IN  IF call.raised # None
             THEN [ error |-> call.raised, words |-> << >>, mount |-> call.mount,
                    calls |-> Append(calls, call) ]
           ELSE IF "body_text" \notin DOMAIN call.data
             THEN [ error |-> KeyError, words |-> << >>, mount |-> call.mount,
                    calls |-> Append(calls, call) ]
           ELSE ParseFiles(Tail(filenames), call.mount, files,
                           BodyWords(call.data.body_text, words),
                           Append(calls, call))

ParseDocumentFirstFileOnly(document_index, m, table, files) ==
  IF document_index >= Len(table)
    THEN [ error |-> IndexError, words |-> << >>, document_id |-> None,
           mount |-> m, calls |-> << >> ]
    ELSE LET document == table[document_index + 1]
             parsed == ParseFiles(<< Head(Split(document.pdf_json_files, << >>)) >>,
                                  m, files, << >>, << >>)
         IN  [ error |-> parsed.error, words |-> parsed.words,
               document_id |-> document.cord_uid, mount |-> parsed.mount,
               calls |-> parsed.calls ]

ParseDocumentFromTheEnd(document_index, m, table, files) ==
  IF document_index >= Len(table)
    THEN [ error |-> IndexError, words |-> << >>, document_id |-> None,
           mount |-> m, calls |-> << >> ]
    ELSE LET document == table[Len(table) - document_index]
             parsed == ParseFiles(Split(document.pdf_json_files, << >>),
                                  m, files, << >>, << >>)
         IN  [ error |-> parsed.error, words |-> parsed.words,
               document_id |-> document.cord_uid, mount |-> parsed.mount,
               calls |-> parsed.calls ]

\* Reader.parse_document: the words and the id of the article at
\* document_index of metadata_with_docs (iloc), or the error raised.
ParseDocument(document_index, m, table, files) ==
  IF document_index >= Len(table)
    THEN [ error |-> IndexError, words |-> << >>, document_id |-> None,
           mount |-> m, calls |-> << >> ]
    ELSE LET document == table[document_index + 1]
             parsed == ParseFiles(Split(document.pdf_json_files, << >>),
                                  m, files, << >>, << >>)
         IN  [ error |-> parsed.error, words |-> parsed.words,
               document_id |-> document.cord_uid, mount |-> parsed.mount,
               calls |-> parsed.calls ]

(***************************************************************************)
(* The kernel, the mount, the remote storage and the local disk.           *)
(***************************************************************************)
VARIABLES
  pc,                       \* the cell (or the step of a cell) to run next
  error,                    \* the exception that stopped the run, and its cell
  mounted,                  \* whether the mount context is started
  remote,                   \* the remote storage: metadata.csv and the files
  disk,                     \* the local files, by name
  metadata_with_docs,       \* the articles that have files
  N_DOCUMENTS,
  model,                    \* the Doc2Vec model
  document_index,           \* the index of the running Corpus pass
  trainPasses,              \* passes over the corpus made by the last train-or-load
  yielded,                  \* the items the running (or last) pass has yielded
  opened,                   \* the paths the running (or last) pass has read
  calls,                    \* the read calls of the last step, in order
  word_vectors,
  ids,
  wv_df,
  metadata_with_embeddings,
  visualizer,
  n_clusters,
  clusters,
  metadata_with_clusters,
  train,
  test

vars == << pc, error, mounted, remote, disk, metadata_with_docs, N_DOCUMENTS,
           model, document_index, trainPasses, yielded, opened, calls,
           word_vectors, ids, wv_df, metadata_with_embeddings, visualizer,
           n_clusters, clusters, metadata_with_clusters, train, test >>

NoError == [ cell |-> None, kind |-> None ]
NoModel == [ trained |-> FALSE, origin |-> None ]
\* The model the lab provides next to the notebook.
ProvidedModel == [ trained |-> TRUE, origin |-> "provided" ]
NoVisualizer == [ located |-> FALSE, elbow_value_ |-> 0 ]

\* f'covid_embeddings_model_{N_DOCUMENTS}_docs.w2v'
ModelFilename(n) == << "covid_embeddings_model_", n, "_docs.w2v" >>

\* The remote file stores of the model: every file of every article is a
\* full-text file, a file without body_text, or missing.
FileStore(kind) ==
  [ name \in { f \in FileNames : kind[f] # "missing" } |->
      IF kind[name] = "good" THEN GoodFile(name) ELSE NoBodyFile(name) ]
FileStores == { FileStore(kind) : kind \in [ FileNames -> { "good", "nobody", "missing" } ] }

Init ==
  /\ pc = "mount_cell"
  /\ error = NoError
  /\ mounted = FALSE
  /\ remote \in { [ csv |-> MetadataCsv(uids), files |-> files ] :
                    uids \in UidTables, files \in FileStores }
  /\ N_DOCUMENTS \in 1 .. (NumArticles + 1)
  /\ disk \in { << >>, ModelFilename(N_DOCUMENTS) :> ProvidedModel }
  /\ metadata_with_docs = << >>
  /\ model = NoModel
  /\ document_index = 0
  /\ trainPasses = 0
  /\ yielded = << >>
  /\ opened = << >>
  /\ calls = << >>
  /\ word_vectors = << >>
  /\ ids = << >>
  /\ wv_df = << >>
  /\ metadata_with_embeddings = << >>
  /\ visualizer = NoVisualizer
  /\ n_clusters = 0
  /\ clusters = << >>
  /\ metadata_with_clusters = << >>
  /\ train = { }
  /\ test = { }

NextCellStopsBeforeInference(cell) ==
  CASE cell = "mount_cell" -> "preview_cell"
    [] cell = "preview_cell" -> "train_cell"
    [] cell = "train_cell" -> "stop_cell"
    [] cell = "stop_cell" -> "infer_cell"
    [] cell = "infer_cell" -> "merge_cell"
    [] cell = "merge_cell" -> "cluster_cell"
    [] cell = "cluster_cell" -> "assign_cell"
    [] cell = "assign_cell" -> "split_cell"
    [] OTHER -> "done"

\* The cells of the notebook in their order.
NextCell(cell) ==
  CASE cell = "mount_cell" -> "preview_cell"
    [] cell = "preview_cell" -> "train_cell"
    [] cell = "train_cell" -> "infer_cell"
    [] cell = "infer_cell" -> "stop_cell"
    [] cell = "stop_cell" -> "merge_cell"
    [] cell = "merge_cell" -> "cluster_cell"
    [] cell = "cluster_cell" -> "assign_cell"
    [] cell = "assign_cell" -> "split_cell"
    [] OTHER -> "done"

\* An exception ends the run of the cell and of the notebook.
Raise(cell, kind) ==
  /\ pc' = "aborted"
  /\ error' = [ cell |-> cell, kind |-> kind ]

\* The paths a step has read (opened and loaded).
ReadPaths(cs) ==
  LET done == SelectSeq(cs, LAMBDA c : c.raised = None)
  IN  [ i \in DOMAIN done |-> done[i].path ]

\* mount.start(); metadata = pd.read_csv(...);
\* metadata_with_docs = metadata[metadata['pdf_json_files'].isna() == False]
MountCell ==
  /\ pc = "mount_cell"
  /\ mounted' = MountStart(mounted)
  /\ IF mounted'
       THEN /\ metadata_with_docs' =
                 SelectSeq(remote.csv, LAMBDA row : row.pdf_json_files # NaN)
            /\ pc' = NextCell("mount_cell")
            /\ error' = error
       ELSE /\ Raise("mount_cell", FileNotFoundError)
            /\ UNCHANGED metadata_with_docs
  /\ calls' = << >>
  /\ UNCHANGED << remote, disk, N_DOCUMENTS, model, document_index, trainPasses,
                  yielded, opened, word_vectors, ids, wv_df,
                  metadata_with_embeddings, visualizer, n_clusters, clusters,
                  metadata_with_clusters, train, test >>

\* example_entry = metadata_with_docs.iloc[DOCUMENT_INDEX]; the read of its file.
PreviewCell ==
  /\ pc = "preview_cell"
  /\ LET example_entry == metadata_with_docs[DOCUMENT_INDEX + 1]
         call == PreviewRead(PathOf(example_entry.pdf_json_files), mounted, remote.files)
     IN  /\ mounted' = call.mount
         /\ calls' = << call >>
         /\ IF call.raised # None
              THEN Raise("preview_cell", call.raised)
              ELSE pc' = NextCell("preview_cell") /\ error' = error
  /\ UNCHANGED << remote, disk, metadata_with_docs, N_DOCUMENTS, model,
                  document_index, trainPasses, yielded, opened, word_vectors, ids,
                  wv_df, metadata_with_embeddings, visualizer, n_clusters,
                  clusters, metadata_with_clusters, train, test >>

PathExistsNever(filename, files) == FALSE

\* os.path.exists(model_filename)
PathExists(filename, files) == filename \in DOMAIN files

\* Doc2Vec(Corpus(N_DOCUMENTS), vector_size=128, batch_words=10)
TrainedModel == [ trained |-> TRUE, origin |-> "trained" ]

\* model.infer_vector(words): the vector, named by the model and the words it
\* was inferred from.
InferVector(m, words) == [ origin |-> m.origin, words |-> words ]

\* The train-or-load cell: load the model when its file is there, else start
\* the training, which iterates Corpus(N_DOCUMENTS).
TrainCell ==
  /\ pc = "train_cell"
  /\ IF PathExists(ModelFilename(N_DOCUMENTS), disk)
       THEN /\ model' = disk[ModelFilename(N_DOCUMENTS)]
            /\ trainPasses' = 0
            /\ pc' = NextCell("train_cell")
            /\ UNCHANGED << document_index, yielded, opened >>
       ELSE /\ pc' = "training"
            /\ trainPasses' = 1
            /\ document_index' = 0
            /\ yielded' = << >>
            /\ opened' = << >>
            /\ UNCHANGED model
  /\ calls' = << >>
  /\ UNCHANGED << error, mounted, remote, disk, metadata_with_docs, N_DOCUMENTS,
                  word_vectors, ids, wv_df, metadata_with_embeddings, visualizer,
                  n_clusters, clusters, metadata_with_clusters, train, test >>

\* The items of the two iterators: TaggedDocument(words, document_id) and the
\* tuple (words, document_id).
TaggedDocument(words, document_id) ==
  [ form |-> "TaggedDocument", words |-> words, document_id |-> document_id ]
WordsAndId(words, document_id) ==
  [ form |-> "tuple", words |-> words, document_id |-> document_id ]

TrainStepSavesOnFailure ==
  /\ pc = "training"
  /\ document_index < N_DOCUMENTS
  /\ LET parsed == ParseDocument(document_index, mounted, metadata_with_docs, remote.files)
     IN  /\ mounted' = parsed.mount
         /\ calls' = parsed.calls
         /\ opened' = opened \o ReadPaths(parsed.calls)
         /\ IF parsed.error # None
              THEN /\ Raise("train_cell", parsed.error)
                   /\ disk' = (ModelFilename(N_DOCUMENTS) :> TrainedModel) @@ disk
                   /\ UNCHANGED << document_index, yielded >>
              ELSE /\ yielded' = Append(yielded, TaggedDocument(parsed.words,
                                                                parsed.document_id))
                   /\ document_index' = document_index + 1
                   /\ UNCHANGED << pc, error, disk >>
  /\ UNCHANGED << remote, metadata_with_docs, N_DOCUMENTS, model, trainPasses,
                  word_vectors, ids, wv_df, metadata_with_embeddings, visualizer,
                  n_clusters, clusters, metadata_with_clusters, train, test >>

\* Corpus.__iter__, one document: yield TaggedDocument(words, document_id)
TrainStep ==
  /\ pc = "training"
  /\ document_index < N_DOCUMENTS
  /\ LET parsed == ParseDocument(document_index, mounted, metadata_with_docs, remote.files)
     IN  /\ mounted' = parsed.mount
         /\ calls' = parsed.calls
         /\ opened' = opened \o ReadPaths(parsed.calls)
         /\ IF parsed.error # None
              THEN /\ Raise("train_cell", parsed.error)
                   /\ UNCHANGED << document_index, yielded >>
              ELSE /\ yielded' = Append(yielded, TaggedDocument(parsed.words,
                                                                parsed.document_id))
                   /\ document_index' = document_index + 1
                   /\ UNCHANGED << pc, error >>
  /\ UNCHANGED << remote, disk, metadata_with_docs, N_DOCUMENTS, model, trainPasses,
                  word_vectors, ids, wv_df, metadata_with_embeddings, visualizer,
                  n_clusters, clusters, metadata_with_clusters, train, test >>

\* The trainer iterates the corpus again (Doc2Vec scans the iterable for the
\* vocabulary and once more for every epoch).
TrainAgain ==
  /\ pc = "training"
  /\ document_index = N_DOCUMENTS
  /\ trainPasses < MaxTrainPasses
  /\ trainPasses' = trainPasses + 1
  /\ document_index' = 0
  /\ yielded' = << >>
  /\ opened' = << >>
  /\ calls' = << >>
  /\ UNCHANGED << pc, error, mounted, remote, disk, metadata_with_docs, N_DOCUMENTS,
                  model, word_vectors, ids, wv_df, metadata_with_embeddings,
                  visualizer, n_clusters, clusters, metadata_with_clusters, train,
                  test >>

\* The training ends: model = Doc2Vec(...); model.save(model_filename)
TrainFinish ==
  /\ pc = "training"
  /\ document_index = N_DOCUMENTS
  /\ model' = TrainedModel
  /\ disk' = (ModelFilename(N_DOCUMENTS) :> model') @@ disk
  /\ pc' = NextCell("train_cell")
  /\ calls' = << >>
  /\ UNCHANGED << error, mounted, remote, metadata_with_docs, N_DOCUMENTS,
                  document_index, trainPasses, yielded, opened, word_vectors, ids,
                  wv_df, metadata_with_embeddings, visualizer, n_clusters, clusters,
                  metadata_with_clusters, train, test >>

\* word_vectors = []; ids = []; for ... in Corpus(N_DOCUMENTS).plain_iter():
InferCell ==
  /\ pc = "infer_cell"
  /\ word_vectors' = << >>
  /\ ids' = << >>
  /\ document_index' = 0
  /\ yielded' = << >>
  /\ opened' = << >>
  /\ calls' = << >>
  /\ pc' = "inferring"
  /\ UNCHANGED << error, mounted, remote, disk, metadata_with_docs, N_DOCUMENTS,
                  model, trainPasses, wv_df, metadata_with_embeddings, visualizer,
                  n_clusters, clusters, metadata_with_clusters, train, test >>

\* Corpus.plain_iter, one document, and the body of the loop:
\* ids.append(doc_id); word_vectors.append(model.infer_vector(words))
InferStep ==
  /\ pc = "inferring"
  /\ document_index < N_DOCUMENTS
  /\ LET parsed == ParseDocument(document_index, mounted, metadata_with_docs, remote.files)
     IN  /\ mounted' = parsed.mount
         /\ calls' = parsed.calls
         /\ opened' = opened \o ReadPaths(parsed.calls)
         /\ IF parsed.error # None
              THEN /\ Raise("infer_cell", parsed.error)
                   /\ UNCHANGED << document_index, yielded, ids, word_vectors >>
              ELSE /\ yielded' = Append(yielded, WordsAndId(parsed.words,
                                                            parsed.document_id))
                   /\ ids' = Append(ids, parsed.document_id)
                   /\ word_vectors' = Append(word_vectors, InferVector(model, parsed.words))
                   /\ document_index' = document_index + 1
                   /\ UNCHANGED << pc, error >>
  /\ UNCHANGED << remote, disk, metadata_with_docs, N_DOCUMENTS, model, trainPasses,
                  wv_df, metadata_with_embeddings, visualizer, n_clusters, clusters,
                  metadata_with_clusters, train, test >>

\* plain_iter is exhausted: the loop and the cell end.
InferEnd ==
  /\ pc = "inferring"
  /\ document_index = N_DOCUMENTS
  /\ pc' = NextCell("infer_cell")
  /\ calls' = << >>
  /\ UNCHANGED << error, mounted, remote, disk, metadata_with_docs, N_DOCUMENTS,
                  model, document_index, trainPasses, yielded, opened, word_vectors,
                  ids, wv_df, metadata_with_embeddings, visualizer, n_clusters,
                  clusters, metadata_with_clusters, train, test >>

\* mount.stop()
StopCell ==
  /\ pc = "stop_cell"
  /\ mounted' = MountStop(mounted)
  /\ pc' = NextCell("stop_cell")
  /\ calls' = << >>
  /\ UNCHANGED << error, remote, disk, metadata_with_docs, N_DOCUMENTS, model,
                  document_index, trainPasses, yielded, opened, word_vectors, ids,
                  wv_df, metadata_with_embeddings, visualizer, n_clusters, clusters,
                  metadata_with_clusters, train, test >>

\* pd.DataFrame(word_vectors, index=ids): one row per vector, labelled by its id.
DataFrame(vectors, index) ==
  [ i \in 1 .. Len(index) |-> [ cord_uid |-> index[i], vector |-> vectors[i] ] ]

\* metadata_with_docs.set_index('cord_uid').iloc[:n]
IndexedHead(table, n) ==
  SubSeq(table, 1, IF n < Len(table) THEN n ELSE Len(table))

IndexOf(frame) == [ i \in DOMAIN frame |-> frame[i].cord_uid ]

\* pd.concat([left, right], axis=1) of two frames with the same index: the
\* columns of both, row by row.
Concat(left, right) ==
  [ i \in DOMAIN left |->
      [ cord_uid |-> left[i].cord_uid, pdf_json_files |-> left[i].pdf_json_files,
        vector |-> right[i].vector ] ]

\* wv_df = pd.DataFrame(word_vectors, index=ids);
\* metadata_with_embeddings = pd.concat([indexed_metadata.iloc[:N_DOCUMENTS], wv_df], axis=1)
MergeCell ==
  /\ pc = "merge_cell"
  /\ calls' = << >>
  /\ IF Len(word_vectors) # Len(ids)
       THEN /\ Raise("merge_cell", ValueError)
            /\ UNCHANGED << wv_df, metadata_with_embeddings >>
       ELSE /\ wv_df' = DataFrame(word_vectors, ids)
            /\ IF IndexOf(IndexedHead(metadata_with_docs, N_DOCUMENTS)) # IndexOf(wv_df')
                 THEN /\ Raise("merge_cell", ValueError)
                      /\ UNCHANGED metadata_with_embeddings
                 ELSE /\ metadata_with_embeddings' =
                           Concat(IndexedHead(metadata_with_docs, N_DOCUMENTS), wv_df')
                      /\ pc' = NextCell("merge_cell")
                      /\ error' = error
  /\ UNCHANGED << mounted, remote, disk, metadata_with_docs, N_DOCUMENTS, model,
                  document_index, trainPasses, yielded, opened, word_vectors, ids,
                  visualizer, n_clusters, clusters, metadata_with_clusters, train,
                  test >>

\* KElbowVisualizer(KMeans(), k=(3,20)).fit: the candidates are range(3, 20);
\* elbow_value_ is one of them, or None when no elbow is located.
ElbowCandidates == ElbowFirst .. (ElbowStop - 1)
Visualizers ==
  { [ located |-> TRUE, elbow_value_ |-> k ] : k \in ElbowCandidates }
  \cup { NoVisualizer }

ClusterCountUncapped(elbow_value) == elbow_value

\* 12 if visualizer.elbow_value_ > 12 else visualizer.elbow_value_
ClusterCount(elbow_value) ==
  IF elbow_value > ClusterCap THEN ClusterCap ELSE elbow_value

\* KMeans(k).fit(frame).labels_: a label below k for every row of the frame.
\* The fit is random; the labellings followed are those made of the lowest,
\* the middle and the highest label.  (KMeans wants at least k rows; the
\* notebook's 500 rows meet every candidate.)
KMeansLabels(k, frame) == [ DOMAIN frame -> { 0, k \div 2, k - 1 } ]

\* The elbow search and the final fit.  None > 12 is a TypeError.
ClusterCell ==
  /\ pc = "cluster_cell"
  /\ calls' = << >>
  /\ \E v \in Visualizers :
       /\ visualizer' = v
       /\ IF ~ v.located
            THEN /\ Raise("cluster_cell", TypeError)
                 /\ UNCHANGED << n_clusters, clusters >>
            ELSE /\ n_clusters' = ClusterCount(v.elbow_value_)
                 /\ clusters' \in KMeansLabels(n_clusters', wv_df)
                 /\ pc' = NextCell("cluster_cell")
                 /\ error' = error
  /\ UNCHANGED << mounted, remote, disk, metadata_with_docs, N_DOCUMENTS, model,
                  document_index, trainPasses, yielded, opened, word_vectors, ids,
                  wv_df, metadata_with_embeddings, metadata_with_clusters, train,
                  test >>

WithClusterReversed(frame, labels) ==
  [ i \in DOMAIN frame |->
      [ cord_uid |-> frame[i].cord_uid, pdf_json_files |-> frame[i].pdf_json_files,
        vector |-> frame[i].vector, cluster |-> labels[Len(labels) + 1 - i] ] ]

\* frame['cluster'] = labels: the labels, row by row.
WithCluster(frame, labels) ==
  [ i \in DOMAIN frame |->
      [ cord_uid |-> frame[i].cord_uid, pdf_json_files |-> frame[i].pdf_json_files,
        vector |-> frame[i].vector, cluster |-> labels[i] ] ]

\* metadata_with_clusters = metadata_with_embeddings (the same frame);
\* metadata_with_clusters['cluster'] = clusters
AssignCell ==
  /\ pc = "assign_cell"
  /\ calls' = << >>
  /\ IF Len(clusters) # Len(metadata_with_embeddings)
       THEN /\ Raise("assign_cell", ValueError)
            /\ UNCHANGED << metadata_with_embeddings, metadata_with_clusters >>
       ELSE /\ metadata_with_clusters' = WithCluster(metadata_with_embeddings, clusters)
            /\ metadata_with_embeddings' = metadata_with_clusters'
            /\ pc' = NextCell("assign_cell")
            /\ error' = error
  /\ UNCHANGED << mounted, remote, disk, metadata_with_docs, N_DOCUMENTS, model,
                  document_index, trainPasses, yielded, opened, word_vectors, ids,
                  wv_df, visualizer, n_clusters, clusters, train, test >>

\* train_size=0.8: n_train = floor(0.8 * n), n_test = n - n_train.
TrainCount(n) == (TrainTenths * n) \div 10

TrainTestSplitKeepsTestRows(n) ==
  { [ train |-> rows, test |-> ((1 .. n) \ rows) \cup { 1 } ] :
      rows \in { r \in SUBSET (1 .. n) : Cardinality(r) = TrainCount(n) } }

\* train_test_split(frame, train_size=0.8): the rows (by position) of the two
\* parts, for every shuffle.
TrainTestSplit(n) ==
  { [ train |-> rows, test |-> (1 .. n) \ rows ] :
      rows \in { r \in SUBSET (1 .. n) : Cardinality(r) = TrainCount(n) } }

\* train, test = train_test_split(metadata_with_clusters, train_size=0.8);
\* an empty train part is a ValueError.
SplitCell ==
  /\ pc = "split_cell"
  /\ calls' = << >>
  /\ IF TrainCount(Len(metadata_with_clusters)) = 0
       THEN /\ Raise("split_cell", ValueError)
            /\ UNCHANGED << train, test >>
       ELSE /\ \E parts \in TrainTestSplit(Len(metadata_with_clusters)) :
                 /\ train' = parts.train
                 /\ test' = parts.test
            /\ pc' = NextCell("split_cell")
            /\ error' = error
  /\ UNCHANGED << mounted, remote, disk, metadata_with_docs, N_DOCUMENTS, model,
                  document_index, trainPasses, yielded, opened, word_vectors, ids,
                  wv_df, metadata_with_embeddings, visualizer, n_clusters, clusters,
                  metadata_with_clusters >>

\* The user runs a reading cell again once the mount is stopped, and goes on
\* from there.
Rerun ==
  /\ pc = "merge_cell"
  /\ \E cell \in { "preview_cell", "train_cell", "infer_cell" } : pc' = cell
  /\ calls' = << >>
  /\ UNCHANGED << error, mounted, remote, disk, metadata_with_docs, N_DOCUMENTS,
                  model, document_index, trainPasses, yielded, opened, word_vectors,
                  ids, wv_df, metadata_with_embeddings, visualizer, n_clusters,
                  clusters, metadata_with_clusters, train, test >>

\* The notebook run top to bottom.
RunAll ==
  \/ MountCell
  \/ PreviewCell
  \/ TrainCell
  \/ TrainStep
  \/ TrainAgain
  \/ TrainFinish
  \/ InferCell
  \/ InferStep
  \/ InferEnd
  \/ StopCell
  \/ MergeCell
  \/ ClusterCell
  \/ AssignCell
  \/ SplitCell

Next == RunAll \/ Rerun

Spec == Init /\ [][Next]_vars

SpecRunAll == Init /\ [][RunAll]_vars

\* The user runs the train-or-load cell again after it has failed; the error
\* of the failed run stays on the screen.
RunTrainCellAgain ==
  /\ pc = "aborted"
  /\ error.cell = "train_cell"
  /\ pc' = "train_cell"
  /\ calls' = << >>
  /\ UNCHANGED << error, mounted, remote, disk, metadata_with_docs, N_DOCUMENTS,
                  model, document_index, trainPasses, yielded, opened, word_vectors,
                  ids, wv_df, metadata_with_embeddings, visualizer, n_clusters,
                  clusters, metadata_with_clusters, train, test >>

SpecTrainAgain == Init /\ [][RunAll \/ RunTrainCellAgain]_vars

(***************************************************************************)
(* The tokenizer on its own: one article of two files, the texts drawn     *)
(* from the words below, parsed by one step of plain_iter.                 *)
(***************************************************************************)
Vocabulary == { W_The, W_owned, W_spreads, W_dot, W_Et, W_h1n1 }
Texts == UNION { [ 1 .. n -> Vocabulary ] : n \in 0 .. MaxWords }

TokInit ==
  /\ pc = "inferring"
  /\ error = NoError
  /\ mounted = TRUE
  /\ \E first \in Texts, second \in Texts :
       remote = [ csv |-> << [ cord_uid |-> 0, pdf_json_files |-> << 1, Sep, 2 >> ] >>,
                  files |-> (1 :> [ body_text |-> << [ text |-> first ] >> ])
                            @@ (2 :> [ body_text |-> << [ text |-> second ],
                                       [ text |-> << W_al, W_virus, W_comma >> ] >> ]) ]
  /\ metadata_with_docs = remote.csv
  /\ N_DOCUMENTS = 1
  /\ disk = (ModelFilename(N_DOCUMENTS) :> ProvidedModel)
  /\ model = ProvidedModel
  /\ document_index = 0
  /\ trainPasses = 0
  /\ yielded = << >>
  /\ opened = << >>
  /\ calls = << >>
  /\ word_vectors = << >>
  /\ ids = << >>
  /\ wv_df = << >>
  /\ metadata_with_embeddings = << >>
  /\ visualizer = NoVisualizer
  /\ n_clusters = 0
  /\ clusters = << >>
  /\ metadata_with_clusters = << >>
  /\ train = { }
  /\ test = { }

TokNext == InferStep \/ InferEnd

SpecTok == TokInit /\ [][TokNext]_vars

(***************************************************************************)
(* Claims                                                                  *)
(***************************************************************************)
CallsOfStep == { calls[i] : i \in DOMAIN calls }

\* C1: every call of the reader (and the preview cell's read) opens the file at
\* most twice and starts the mount at most once, and only after the first open
\* raised FileNotFoundError; when the second open fails too, its error leaves
\* the call, which is the last of the step, and ends the run.
C1_OneRemountOneRetry ==
  \A i \in DOMAIN calls :
    LET c == calls[i]
    IN  /\ Len(c.opens) \in { 1, 2 }
        /\ c.starts \in { 0, 1 }
        /\ (c.starts = 1) <=> (c.opens[1] = FileNotFoundError)
        /\ (Len(c.opens) = 2) <=> (c.opens[1] = FileNotFoundError)
        /\ (Len(c.opens) = 2 /\ c.opens[2] # "ok") =>
             /\ c.raised = c.opens[2]
             /\ i = Len(calls)
             /\ pc = "aborted"
             /\ error.kind = c.raised
        /\ (c.raised # None) => (Len(c.opens) = 2 /\ c.opens[2] # "ok")

\* A call whose retry failed as well.
C1_Witness ==
  \E c \in CallsOfStep :
    /\ c.opens = << FileNotFoundError, FileNotFoundError >>
    /\ c.starts = 1
    /\ pc = "aborted"
    /\ error.cell = "infer_cell"

\* C10: a read made while the mount is stopped, of a file of the remote
\* storage, is recovered: first open fails, the mount is started, the second
\* open succeeds and the file's content is returned; the mount is started
\* afterwards, and no step but the mount.stop() cell stops it.
C10_StoppedMountRecovered ==
  \A c \in CallsOfStep :
    (~ c.before /\ Len(c.path) = 1 /\ c.path[1] \in DOMAIN remote.files) =>
      /\ c.opens = << FileNotFoundError, "ok" >>
      /\ c.starts = 1
      /\ c.raised = None
      /\ c.data = remote.files[c.path[1]]
      /\ c.mount
      /\ mounted

C10_ReaderNeverStops == [][ (mounted /\ ~ mounted') => pc = "stop_cell" ]_vars

C10_RemountAndRetry == [] C10_StoppedMountRecovered /\ C10_ReaderNeverStops

\* The inference cell, run again after mount.stop(), has read a file.
C10_Witness ==
  /\ pc = "inferring"
  /\ \E c \in CallsOfStep : ~ c.before /\ c.raised = None /\ c.mount
  /\ mounted

ReadingCells == { "preview_cell", "train_cell", "infer_cell" }
StoppedCells == { "merge_cell", "cluster_cell", "assign_cell", "split_cell" }

\* C2: in a run from top to bottom every read finds the mount started, the
\* mount stays started until the training pass (when there is one) and the
\* inference pass are over, no file is read once mount.stop() has run, and the
\* mount is stopped from then on, the clustering stage included.
C2_MountSpansTheReads ==
  /\ \A c \in CallsOfStep : c.before
  /\ pc \in { "preview_cell", "train_cell", "training", "infer_cell", "inferring",
              "stop_cell" } => mounted
  /\ (pc = "aborted" /\ error.cell \in ReadingCells) => mounted
  /\ pc = "stop_cell" => Len(ids) = N_DOCUMENTS /\ model.trained
  /\ (pc \in StoppedCells \cup { "done" }) => (~ mounted /\ calls = << >>)
  /\ (pc = "aborted" /\ error.cell \in StoppedCells) => (~ mounted /\ calls = << >>)

\* The clustering stage of a run that trained and inferred.
C2_Witness ==
  /\ pc = "cluster_cell"
  /\ trainPasses > 0
  /\ Len(ids) = N_DOCUMENTS
  /\ ~ mounted

ArtifactExists == ModelFilename(N_DOCUMENTS) \in DOMAIN disk

\* C3: the train-or-load step loads, iterates nothing and leaves the disk alone
\* when the file named after N_DOCUMENTS exists, and trains and saves under
\* that name otherwise; an existing artifact is never written again, the
\* artifact exists once the step is over, and the model is trained whenever the
\* inference runs.
C3_StateOk ==
  /\ pc \in { "infer_cell", "inferring", "stop_cell" } => (model.trained /\ ArtifactExists)
  /\ pc = "training" => ~ ArtifactExists

C3_StepOk ==
  /\ (pc = "train_cell" /\ ArtifactExists) =>
       /\ pc' = "infer_cell"
       /\ model' = disk[ModelFilename(N_DOCUMENTS)]
       /\ trainPasses' = 0
       /\ calls' = << >>
       /\ UNCHANGED << disk, yielded, opened, document_index >>
  /\ (pc = "train_cell" /\ ~ ArtifactExists) =>
       /\ pc' = "training"
       /\ trainPasses' = 1
       /\ UNCHANGED disk
  /\ (pc = "training" /\ pc' = "infer_cell") =>
       /\ document_index = N_DOCUMENTS
       /\ model'.trained
       /\ disk' = (ModelFilename(N_DOCUMENTS) :> model') @@ disk
  /\ ArtifactExists => UNCHANGED disk

C3_TrainOrLoadIdempotent == [] C3_StateOk /\ [][C3_StepOk]_vars

\* The step, run a second time, has loaded the model that its first run trained.
C3_Witness ==
  /\ pc = "infer_cell"
  /\ trainPasses = 0
  /\ model = TrainedModel
  /\ disk[ModelFilename(N_DOCUMENTS)] = TrainedModel

InPass == pc \in { "training", "inferring" }
PassOver == (InPass /\ document_index = N_DOCUMENTS) \/ pc = "stop_cell"
PassFailed == pc = "aborted" /\ error.cell \in { "train_cell", "infer_cell" }

\* The files of the articles 0 .. N_DOCUMENTS - 1, as the table names them.
FilesOfCorpus ==
  UNION { Range(ArticleFiles(i)) : i \in 0 .. (N_DOCUMENTS - 1) }
IdsOfTable(n) == [ i \in 1 .. n |-> metadata_with_docs[i].cord_uid ]
YieldedIds == [ i \in DOMAIN yielded |-> yielded[i].document_id ]

CorpusWithinTable == pc # "mount_cell" /\ N_DOCUMENTS <= Len(metadata_with_docs)
EveryFileReadable == \A name \in FilesOfCorpus : name \in DOMAIN remote.files
EveryFileHasBody ==
  \A name \in FilesOfCorpus :
    name \in DOMAIN remote.files /\ "body_text" \in DOMAIN remote.files[name]

PassYieldsTheArticlesInOrder ==
  /\ ~ PassFailed
  /\ InPass => (Len(yielded) = document_index /\ document_index <= N_DOCUMENTS)
  /\ InPass => \A i \in DOMAIN yielded :
                 yielded[i].form = IF pc = "training" THEN "TaggedDocument" ELSE "tuple"
  /\ InPass => YieldedIds = IdsOfTable(document_index)
  /\ PassOver => YieldedIds = IdsOfTable(N_DOCUMENTS)

C5_CappedClusterCount ==
  (pc \in { "assign_cell", "split_cell", "done" }
     \/ (pc = "aborted" /\ error.cell \in { "assign_cell", "split_cell" })) =>
    /\ visualizer.located
    /\ visualizer.elbow_value_ \in ElbowFirst .. (ElbowStop - 1)
    /\ visualizer.elbow_value_ <= ClusterCap => n_clusters = visualizer.elbow_value_
    /\ visualizer.elbow_value_ > ClusterCap => n_clusters = ClusterCap
    /\ n_clusters <= ClusterCap
    /\ Len(clusters) = Len(word_vectors)
    /\ \A i \in DOMAIN clusters : clusters[i] >= 0 /\ clusters[i] < n_clusters

\* The elbow was above the cap, and a label of the final fit is the highest one.
C5_Witness ==
  /\ pc = "assign_cell"
  /\ visualizer.elbow_value_ > ClusterCap
  /\ n_clusters = ClusterCap
  /\ \E i \in DOMAIN clusters : clusters[i] = ClusterCap - 1

\* The raw words of an article, file after file and paragraph after paragraph,
\* and what the tokenizer is to make of them.
RECURSIVE RawWordsOfBody(_)
RawWordsOfBody(body_text) ==
  IF body_text = << >> THEN << >>
  ELSE Head(body_text).text \o RawWordsOfBody(Tail(body_text))

RECURSIVE RawWordsOfFiles(_)
RawWordsOfFiles(paths) ==
  IF paths = << >> THEN << >>
  ELSE RawWordsOfBody(remote.files[Head(paths)[1]].body_text)
         \o RawWordsOfFiles(Tail(paths))

RawWordsOf(row) == RawWordsOfFiles(Split(row.pdf_json_files, << >>))

StemsOfKeptWords(raw) ==
  LET kept == SelectSeq(raw, LAMBDA w : IsAlpha(w) /\ Lower(w) \notin stop_tokens)
  IN  [ i \in DOMAIN kept |-> Stem(kept[i]) ]

PunctuationOnly(token) ==
  Len(token) > 0 /\ \A i \in DOMAIN token : token[i] \in Range(punctuation)

AfterInference ==
  \/ pc \in { "stop_cell" } \cup StoppedCells \cup { "done" }
  \/ pc = "aborted" /\ error.cell \in StoppedCells
AfterAssign ==
  \/ pc \in { "split_cell", "done" }
  \/ pc = "aborted" /\ error.cell = "split_cell"

\* C6: after the inference pass ids and word_vectors have N entries, the i-th
\* id is that of the article at index i and the i-th vector is the one inferred
\* from that article's tokens; after the merge and the assignment row i has
\* that id, that vector and the i-th cluster label, and nothing else but the
\* article's own columns.
C6_RowsCarryTheirOwnVectorAndLabel ==
  /\ AfterInference =>
       /\ Len(ids) = N_DOCUMENTS
       /\ Len(word_vectors) = N_DOCUMENTS
       /\ \A i \in 1 .. N_DOCUMENTS :
            /\ ids[i] = metadata_with_docs[i].cord_uid
            /\ word_vectors[i] =
                 [ origin |-> model.origin,
                   words |-> StemsOfKeptWords(RawWordsOf(metadata_with_docs[i])) ]
  /\ AfterAssign =>
       /\ Len(metadata_with_clusters) = N_DOCUMENTS
       /\ Len(clusters) = N_DOCUMENTS
       /\ \A i \in 1 .. N_DOCUMENTS :
            /\ DOMAIN metadata_with_clusters[i] =
                 { "cord_uid", "pdf_json_files", "vector", "cluster" }
            /\ metadata_with_clusters[i].cord_uid = metadata_with_docs[i].cord_uid
            /\ metadata_with_clusters[i].pdf_json_files = metadata_with_docs[i].pdf_json_files
            /\ metadata_with_clusters[i].vector = word_vectors[i]
            /\ metadata_with_clusters[i].cluster = clusters[i]

\* Two articles that share an id, with different vectors and different labels.
C6_Witness ==
  /\ pc = "done"
  /\ N_DOCUMENTS >= 2
  /\ metadata_with_clusters[1].cord_uid = metadata_with_clusters[2].cord_uid
  /\ metadata_with_clusters[1].vector # metadata_with_clusters[2].vector
  /\ metadata_with_clusters[1].cluster # metadata_with_clusters[2].cluster

TokensAreTheStemsInOrder ==
  \A i \in DOMAIN yielded :
    /\ yielded[i].words = StemsOfKeptWords(RawWordsOf(metadata_with_docs[i]))
    /\ \A j \in DOMAIN yielded[i].words :
         /\ ~ PunctuationOnly(yielded[i].words[j])
         /\ \E w \in Range(RawWordsOf(metadata_with_docs[i])) :
              IsAlpha(w) /\ Stem(w) = yielded[i].words[j]

\* C7 as stated: the tokens of a document hold no stop-word and no
\* punctuation-only entry, each is the stem of an alphabetic word of the
\* input, and they come in input order across sentences, paragraphs and files.
C7_TokensHoldNoStopWord ==
  /\ TokensAreTheStemsInOrder
  /\ \A i \in DOMAIN yielded :
       \A j \in DOMAIN yielded[i].words : yielded[i].words[j] \notin stop_tokens

\* C7, amended: the tokens of a document are the stems, in input order across
\* sentences, paragraphs and files, of the input words that are alphabetic
\* and whose lower-case form is no stop token; none is punctuation-only.
C7_TokensAreStemsOfKeptWords == TokensAreTheStemsInOrder

\* A document whose tokens come from both files, one of them the stem of
\* "owned".
C7_Witness ==
  /\ Len(yielded) = 1
  /\ Len(yielded[1].words) >= 3
  /\ Stem(W_owned) \in Range(yielded[1].words)
  /\ Stem(W_spreads) \in Range(yielded[1].words)
  /\ yielded[1].words[Len(yielded[1].words)] = W_virus

\* C8: the split gives two disjoint parts that together are all the rows, the
\* train part holding floor(0.8 * n) of the n rows.
C8_SplitIsAPartition ==
  pc = "done" =>
    LET n == Len(metadata_with_clusters)
    IN  /\ train \cap test = { }
        /\ train \cup test = 1 .. n
        /\ Cardinality(train) + Cardinality(test) = n
        /\ 10 * Cardinality(train) <= TrainTenths * n
        /\ TrainTenths * n < 10 * (Cardinality(train) + 1)

\* A split with rows in both parts.
C8_Witness ==
  /\ pc = "done"
  /\ train # { }
  /\ test # { }

\* The paths of the files of the articles 0 .. n - 1, in reading order.
RECURSIVE PathsOfCorpus(_)
PathsOfCorpus(n) ==
  IF n = 0 THEN << >>
  ELSE PathsOfCorpus(n - 1)
         \o [ j \in DOMAIN ArticleFiles(n - 1) |-> << ArticleFiles(n - 1)[j] >> ]

PassesReadEveryFile ==
  /\ InPass => opened = PathsOfCorpus(document_index)
  /\ PassOver => opened = PathsOfCorpus(N_DOCUMENTS)

\* C9 as stated: the run makes two passes, one to train and one to infer, and
\* each reads every file of every document.
C9_TwoPassesReadEveryFile ==
  /\ PassesReadEveryFile
  /\ pc = "stop_cell" => trainPasses = 1

\* C9, amended: the training iterates the corpus (at least once) exactly when
\* no model file existed, the inference iterates it once in every run, and
\* every pass reads every file of every document it yields, from the storage.
C9_EveryPassReadsEveryFile ==
  /\ PassesReadEveryFile
  /\ pc \in { "infer_cell", "inferring", "stop_cell" } =>
       /\ (trainPasses = 0) <=> (model = ProvidedModel)
       /\ (trainPasses >= 1) <=> (model = TrainedModel)
  /\ pc = "training" => (trainPasses >= 1 /\ ~ ArtifactExists)

\* The inference pass is over and has read every file again, after a training.
C9_Witness ==
  /\ pc = "stop_cell"
  /\ trainPasses >= 1
  /\ N_DOCUMENTS >= 2
  /\ opened = PathsOfCorpus(N_DOCUMENTS)

\* The file names of the article at index i of the table, as parse_document
\* splits them.
TableFiles(i) == Split(metadata_with_docs[i + 1].pdf_json_files, << >>)
Readable(name) == name[1] \in DOMAIN remote.files
HasBody(name) == Readable(name) /\ "body_text" \in DOMAIN remote.files[name[1]]

\* The j-th file of article i is there without a body_text field, and the
\* files before it are full-text files: the reads of article i get to it.
ReadsReachFileWithoutBody(i, j) ==
  /\ j \in DOMAIN TableFiles(i)
  /\ \A k \in 1 .. (j - 1) : HasBody(TableFiles(i)[k])
  /\ Readable(TableFiles(i)[j])
  /\ ~ HasBody(TableFiles(i)[j])
ArticleLacksBody(i) == \E j \in DOMAIN TableFiles(i) : ReadsReachFileWithoutBody(i, j)

PassAtArticle ==
  /\ InPass
  /\ document_index < N_DOCUMENTS
  /\ document_index < Len(metadata_with_docs)

FailedOnBody == PassFailed /\ error.kind = KeyError

\* The reads of the step that failed: the files of the article up to the one
\* without body_text, each loaded once, the mount started only by a read that
\* found it stopped, and nothing opened after the failing file was loaded.
FailingReadsAreNotRetried ==
  /\ ReadsReachFileWithoutBody(document_index, Len(calls))
  /\ \A k \in DOMAIN calls :
       /\ calls[k].path = PathOf(TableFiles(document_index)[k])
       /\ calls[k].raised = None
       /\ calls[k].starts = (IF calls[k].before THEN 0 ELSE 1)
       /\ Len(calls[k].opens) = calls[k].starts + 1
  /\ mounted = calls[Len(calls)].mount

C11_StateOk ==
  /\ FailedOnBody =>
       /\ FailingReadsAreNotRetried
       /\ Len(yielded) = document_index
       /\ YieldedIds = IdsOfTable(document_index)
       /\ error.cell = "infer_cell" =>
            (Len(ids) = document_index /\ Len(word_vectors) = document_index)
  /\ (pc # "mount_cell") =>
       \A i \in DOMAIN yielded : \A k \in DOMAIN TableFiles(i - 1) :
         HasBody(TableFiles(i - 1)[k])

C11_StepOk ==
  /\ (PassAtArticle /\ ArticleLacksBody(document_index)) =>
       /\ pc' = "aborted"
       /\ error' = [ cell |-> IF pc = "training" THEN "train_cell" ELSE "infer_cell",
                     kind |-> KeyError ]
       /\ UNCHANGED << document_index, yielded, ids, word_vectors, model, disk >>
  /\ pc = "aborted" =>
       (~ InPass' /\ UNCHANGED << error, document_index, yielded >>)

TrainingFailed == pc = "aborted" /\ error.cell = "train_cell"
\* The train-or-load cell is about to run again after a failed run of it.
TrainCellRunsAgain == pc = "train_cell" /\ error.cell = "train_cell"

C12_StateOk ==
  /\ TrainingFailed => (~ ArtifactExists /\ model = NoModel)
  /\ pc = "training" => ~ ArtifactExists
  /\ (ArtifactExists /\ disk[ModelFilename(N_DOCUMENTS)] = TrainedModel) =>
       /\ N_DOCUMENTS <= Len(metadata_with_docs)
       /\ \A i \in 0 .. (N_DOCUMENTS - 1) : \A k \in DOMAIN TableFiles(i) :
            HasBody(TableFiles(i)[k])

C12_StepOk ==
  /\ disk' # disk =>
       /\ pc = "training"
       /\ error' = error
       /\ pc' = NextCell("train_cell")
       /\ document_index = N_DOCUMENTS
       /\ YieldedIds = IdsOfTable(N_DOCUMENTS)
       /\ opened = PathsOfCorpus(N_DOCUMENTS)
       /\ ~ ArtifactExists
       /\ disk' = (ModelFilename(N_DOCUMENTS) :> TrainedModel) @@ disk
  /\ TrainCellRunsAgain =>
       /\ pc' = "training"
       /\ trainPasses' = 1
       /\ document_index' = 0
       /\ yielded' = << >>
       /\ UNCHANGED << model, disk >>

\* C12: the model file is written only by the end of a training whose pass
\* has yielded every article of the corpus and read every file of it; a
\* training that fails on a read or a parse leaves no file under the model
\* filename and no model, and the train-or-load cell run again after such a
\* failure starts the training from the first article instead of loading.
C12_ArtifactOnlyAfterFullTraining == [] C12_StateOk /\ [][C12_StepOk]_vars

\* The train-or-load cell, run again after a training that failed past the
\* first article, trains again: it has yielded the first article anew.
C12_Witness ==
  /\ pc = "training"
  /\ error.cell = "train_cell"
  /\ error.kind \in { KeyError, FileNotFoundError }
  /\ N_DOCUMENTS >= 2
  /\ document_index = 1
  /\ Len(yielded) = 1
  /\ ~ ArtifactExists

====
